---- MODULE Spec2Model ----
(***************************************************************************)
(* Model of openstack/resource_openstack_compute_aggregate_v2.go: the four *)
(* lifecycle callbacks of the host-aggregate resource (Create, Read,       *)
(* Update, Delete), the import passthrough, and the helper arrayDifference.*)
(*                                                                         *)
(* d       the resource data the callbacks work on: the local ID and the   *)
(*         cached attributes (name, zone, hosts, metadata)                 *)
(* remote  the aggregate held by the compute service                       *)
(* last    what the most recent callback did: the attributes it started    *)
(*         from (old), the attributes it was given (new), the external     *)
(*         calls it issued in order, the index of the call that failed     *)
(*         (0: none) and the error it returned                             *)
(* hist    the callbacks before that one: whether the one just before was  *)
(*         a Read that succeeded, and whether the one before it, Reads     *)
(*         aside, was an Update that aborted on a host call                *)
(* oldHosts, newHosts, diff   the two host lists Update compares and the    *)
(*         two differences it takes of them                                *)
(*                                                                         *)
(* Each callback is one action: it issues its calls in order against the   *)
(* service and returns at the first call that fails.  Any call may fail    *)
(* (failAt), and a call on an aggregate the service does not hold always   *)
(* fails; a failed call changes nothing at the service.  The callbacks set *)
(* no partial mode, so the attributes a Create or an Update was given are  *)
(* the cached attributes afterwards, whether or not it returned an error.  *)
(* The compute client is taken to be available.                            *)
(***************************************************************************)
EXTENDS Integers, Sequences, FiniteSets, TLC

VARIABLES d, remote, last, hist, oldHosts, newHosts, diff

vars == <<d, remote, last, hist, oldHosts, newHosts, diff>>

\* ---------------------------------------------------------------- bounds
MaxHosts == 2
MaxDiffLen == 3

\* ---------------------------------------------------------------- domains
Hosts == {"h1", "h2"}
DiffHosts == {"h1", "h2", "h3", "h4"}
Names == {"n1", "n2"}
Zones == {"", "z1"}
ZoneKey == "availability_zone"
MetaKeys == {ZoneKey, "owner"}
MetaVals == {"z1"}
Ids == {42}
ImportIds == {<<"4", "2">>, <<"x">>}

Range(s) == {s[i] : i \in DOMAIN s}

SeqsUpTo(S, n) == UNION {[1..k -> S] : k \in 0..n}

HostLists == SeqsUpTo(Hosts, MaxHosts)

DiffLists == SeqsUpTo(DiffHosts, MaxDiffLen)

MetaMaps == UNION {[K -> MetaVals] : K \in SUBSET MetaKeys}

EmptyMap == <<>>

NoDup(s) == \A i, j \in DOMAIN s : s[i] = s[j] => i = j

Occurrences(s, x) == Cardinality({i \in DOMAIN s : s[i] = x})

\* the orders in which the service may list a host set
HostOrders(S) == {s \in [1..Cardinality(S) -> S] : Range(s) = S}

\* ---------------------------------------------------------------- strconv
Digits == <<"0", "1", "2", "3", "4", "5", "6", "7", "8", "9">>

DigitVal(c) == (CHOOSE i \in DOMAIN Digits : Digits[i] = c) - 1

IsDigit(c) == \E i \in DOMAIN Digits : Digits[i] = c

RECURSIVE ItoaNat(_)
ItoaNat(n) == IF n < 10 THEN <<Digits[n + 1]>>
              ELSE ItoaNat(n \div 10) \o <<Digits[(n % 10) + 1]>>

Itoa(n) == IF n < 0 THEN <<"-">> \o ItoaNat(0 - n) ELSE ItoaNat(n)

RECURSIVE DigitsVal(_)
DigitsVal(s) == IF s = <<>> THEN 0
                ELSE 10 * DigitsVal(SubSeq(s, 1, Len(s) - 1)) + DigitVal(s[Len(s)])

Atoi(s) ==
    LET signed == s # <<>> /\ s[1] \in {"+", "-"}
        body   == IF signed THEN Tail(s) ELSE s
    IN  IF body # <<>> /\ \A i \in DOMAIN body : IsDigit(body[i])
        THEN [ok |-> TRUE,
              val |-> IF signed /\ s[1] = "-" THEN 0 - DigitsVal(body) ELSE DigitsVal(body)]
        ELSE [ok |-> FALSE, val |-> 0]

\* ---------------------------------------------------------------- records
Attrs(name, zone, hosts, metadata) ==
    [name |-> name, zone |-> zone, hosts |-> hosts, metadata |-> metadata]

NoAttrs == Attrs("", "", <<>>, EmptyMap)

AttrsOf(r) == Attrs(r.name, r.zone, r.hosts, r.metadata)

\* The attribute records the callbacks are given, one family per specification:
\* every host list under a fixed name and zone, without metadata and, for the
\* short lists, with metadata; every name and zone; every metadata map.
HostDesired ==
    {Attrs("n1", "z1", h, EmptyMap) : h \in HostLists}
    \cup {Attrs("n1", "z1", h, ("owner" :> "z1")) : h \in {<<>>, <<"h1">>}}

NameZoneDesired ==
    {Attrs(n, z, <<"h1">>, m) : n \in Names, z \in Zones, m \in {EmptyMap, ("owner" :> "z1")}}

MetadataDesired ==
    {Attrs("n1", z, <<"h1">>, m) : z \in Zones, m \in MetaMaps}

Call(op, id, name, zone, host, metadata) ==
    [op |-> op, id |-> id, name |-> name, zone |-> zone, host |-> host, metadata |-> metadata]

NoErr == [op |-> "none", host |-> ""]

Err(op, host) == [op |-> op, host |-> host]

NoRemote == [exists |-> FALSE, id |-> 0, name |-> "", zone |-> "", hosts |-> {}, metadata |-> EmptyMap]

\* ---------------------------------------------------------------- helper
arrayDifferenceInverted(a, b) ==
    LET m == [item \in Range(b) |-> TRUE]
    IN  SelectSeq(a, LAMBDA item : item \in DOMAIN m)

RECURSIVE Dedup(_)
Dedup(s) == IF s = <<>> THEN <<>>
            ELSE LET front == Dedup(SubSeq(s, 1, Len(s) - 1))
                 IN  IF s[Len(s)] \in Range(front) THEN front ELSE Append(front, s[Len(s)])

arrayDifferenceDedup(a, b) ==
    LET m == [item \in Range(b) |-> TRUE]
    IN  Dedup(SelectSeq(a, LAMBDA item : item \notin DOMAIN m))

arrayDifference(a, b) ==
    LET m == [item \in Range(b) |-> TRUE]
    IN  SelectSeq(a, LAMBDA item : item \notin DOMAIN m)

\* ---------------------------------------------------------------- service
\* the compute service's answer to a call it accepts
Apply(r, c) ==
    CASE c.op = "create" ->
           [exists |-> TRUE, id |-> c.id, name |-> c.name, zone |-> c.zone, hosts |-> {},
            metadata |-> IF c.zone = "" THEN EmptyMap ELSE (ZoneKey :> c.zone)]
      [] c.op = "update" ->
           [r EXCEPT !.name = IF c.name = "" THEN @ ELSE c.name,
                     !.zone = IF c.zone = "" THEN @ ELSE c.zone,
                     !.metadata = IF c.zone = "" THEN @ ELSE (ZoneKey :> c.zone) @@ @]
      [] c.op = "add-host" -> [r EXCEPT !.hosts = @ \cup {c.host}]
      [] c.op = "remove-host" -> [r EXCEPT !.hosts = @ \ {c.host}]
      [] c.op = "set-metadata" -> [r EXCEPT !.metadata = c.metadata @@ @]
      [] c.op = "delete" -> NoRemote
      [] OTHER -> r

\* a call on an aggregate the service does not hold fails
Accepts(r, c) == c.op = "create" \/ (r.exists /\ r.id = c.id)

\* The callbacks issue their calls one after the other and return at the first
\* one that fails: calls k.. are issued against r, call number failAt fails.
RECURSIVE RunNoAbort(_, _, _, _)
RunNoAbort(calls, k, failAt, r) ==
    IF k > Len(calls) THEN [remote |-> r, issued |-> Len(calls), failed |-> 0]
    ELSE IF k = failAt \/ ~Accepts(r, calls[k])
         THEN [RunNoAbort(calls, k + 1, 0, r) EXCEPT !.failed = k]
         ELSE RunNoAbort(calls, k + 1, failAt, Apply(r, calls[k]))

RECURSIVE Run(_, _, _, _)
Run(calls, k, failAt, r) ==
    IF k > Len(calls) THEN [remote |-> r, issued |-> Len(calls), failed |-> 0]
    ELSE IF k = failAt \/ ~Accepts(r, calls[k])
         THEN [remote |-> r, issued |-> k, failed |-> k]
         ELSE Run(calls, k + 1, failAt, Apply(r, calls[k]))

\* ---------------------------------------------------------------- schema
HasChangeAlways(old, new) == TRUE

HasChange(old, new) == old # new

GetOk(v) == v # <<>>

\* ---------------------------------------------------------------- Create
HostCallsOf(op, id, hosts) == [i \in 1..Len(hosts) |-> Call(op, id, "", "", hosts[i], EmptyMap)]

CreateCallsLazyMetadata(id, new) ==
    <<Call("create", id, new.name, new.zone, "", EmptyMap)>>
    \o (IF GetOk(new.hosts) THEN HostCallsOf("add-host", id, new.hosts) ELSE <<>>)
    \o (IF new.metadata # EmptyMap
        THEN <<Call("set-metadata", id, "", "", "", new.metadata)>> ELSE <<>>)

CreateCalls(id, new) ==
    <<Call("create", id, new.name, new.zone, "", EmptyMap)>>
    \o (IF GetOk(new.hosts) THEN HostCallsOf("add-host", id, new.hosts) ELSE <<>>)
    \o <<Call("set-metadata", id, "", "", "", new.metadata)>>

CreateErr(c) ==
    CASE c.op = "create" -> Err("create", "")
      [] c.op = "add-host" -> Err("add-host", c.host)
      [] c.op = "set-metadata" -> Err("set-metadata", "")

\* ---------------------------------------------------------------- Read
StripNothing(metadata) == metadata

StripZone(metadata) ==
    IF ZoneKey \in DOMAIN metadata
    THEN [k \in DOMAIN metadata \ {ZoneKey} |-> metadata[k]]
    ELSE metadata

ReadRecordKeepHosts(rec, aggregate, hosts) ==
    [rec EXCEPT !.name = aggregate.name, !.zone = aggregate.zone,
                !.metadata = StripZone(aggregate.metadata)]

ReadRecord(rec, aggregate, hosts) ==
    [rec EXCEPT !.name = aggregate.name, !.zone = aggregate.zone, !.hosts = hosts,
                !.metadata = StripZone(aggregate.metadata)]

ReadErr(c) == Err("get", "")

\* ---------------------------------------------------------------- Update
NameZoneCalls(id, old, new) ==
    LET updateOpts == [name |-> IF HasChange(old.name, new.name) THEN new.name ELSE "",
                       zone |-> IF HasChange(old.zone, new.zone) THEN new.zone ELSE ""]
    IN  IF updateOpts # [name |-> "", zone |-> ""]
        THEN <<Call("update", id, updateOpts.name, updateOpts.zone, "", EmptyMap)>>
        ELSE <<>>

HostCalls(id, old, new) ==
    IF HasChange(old.hosts, new.hosts)
    THEN LET hostsToDelete == arrayDifference(old.hosts, new.hosts)
             hostsToAdd    == arrayDifference(new.hosts, old.hosts)
         IN  HostCallsOf("remove-host", id, hostsToDelete) \o HostCallsOf("add-host", id, hostsToAdd)
    ELSE <<>>

MetadataDelta(old, new) ==
    [k \in {j \in DOMAIN new : j \notin DOMAIN old \/ old[j] # new[j]} |-> new[k]]

MetadataCallsDelta(id, old, new) ==
    IF HasChange(old.metadata, new.metadata)
    THEN <<Call("set-metadata", id, "", "", "", MetadataDelta(old.metadata, new.metadata))>>
    ELSE <<>>

MetadataCalls(id, old, new) ==
    IF HasChange(old.metadata, new.metadata)
    THEN <<Call("set-metadata", id, "", "", "", new.metadata)>>
    ELSE <<>>

UpdateCalls(id, old, new) ==
    NameZoneCalls(id, old, new) \o HostCalls(id, old, new) \o MetadataCalls(id, old, new)

UpdateErr(c) ==
    CASE c.op = "update" -> Err("update", "")
      [] c.op = "remove-host" -> Err("add-host", c.host)
      [] c.op = "add-host" -> Err("add-host", c.host)
      [] c.op = "set-metadata" -> Err("set-metadata", "")

\* ---------------------------------------------------------------- Delete
DeleteErr(c) == Err("delete", "")

\* ---------------------------------------------------------------- state
Record(id, attrs) ==
    [id |-> id, name |-> attrs.name, zone |-> attrs.zone, hosts |-> attrs.hosts,
     metadata |-> attrs.metadata]

Log(op, old, new, calls, failed, err) ==
    [op |-> op, old |-> old, new |-> new, calls |-> calls, failed |-> failed, err |-> err]

ConvertErr == Err("convert-id", "")

Succeeded(l) == l.err = NoErr

AbortedOnHost(l) ==
    /\ l.op = "Update"
    /\ l.failed > 0
    /\ l.calls[l.failed].op \in {"remove-host", "add-host"}

\* the history once the callback logged in l is over
HistAfter(h, l) ==
    [afterRead |-> l.op \in {"Read", "Import"} /\ Succeeded(l),
     aborted   |-> IF AbortedOnHost(l) THEN TRUE
                   ELSE IF l.op = "Read" THEN h.aborted ELSE FALSE]

NoDifference == [done |-> FALSE, hostsToDelete |-> <<>>, hostsToAdd |-> <<>>]

Imported ==
    [exists |-> TRUE, id |-> 42, name |-> "n1", zone |-> "z1", hosts |-> {"h1"},
     metadata |-> (ZoneKey :> "z1") @@ ("owner" :> "team-a")]

\* nothing created yet
Init ==
    /\ d = Record(<<>>, NoAttrs)
    /\ remote = NoRemote
    /\ last = Log("none", NoAttrs, NoAttrs, <<>>, 0, NoErr)
    /\ hist = [afterRead |-> FALSE, aborted |-> FALSE]
    /\ oldHosts = <<>> /\ newHosts = <<>> /\ diff = NoDifference

\* nothing created yet, and the service may hold an aggregate to import
InitImport ==
    /\ d = Record(<<>>, NoAttrs)
    /\ remote \in {NoRemote, Imported}
    /\ last = Log("none", NoAttrs, NoAttrs, <<>>, 0, NoErr)
    /\ hist = [afterRead |-> FALSE, aborted |-> FALSE]
    /\ oldHosts = <<>> /\ newHosts = <<>> /\ diff = NoDifference

Logged == hist' = HistAfter(hist, last) /\ UNCHANGED <<oldHosts, newHosts, diff>>

\* resourceComputeAggregateV2Create on the attributes new; the service assigns
\* the ID id.  Without a created aggregate no ID is set and nothing is kept.
Create(D) ==
    /\ d.id = <<>>
    /\ ~remote.exists
    /\ \E new \in D, id \in Ids :
         LET calls == CreateCalls(id, new)
         IN  \E failAt \in 0..Len(calls) :
               LET out    == Run(calls, 1, failAt, remote)
                   issued == SubSeq(calls, 1, out.issued)
               IN  /\ remote' = out.remote
                   /\ d' = IF out.failed = 1 THEN d ELSE Record(Itoa(id), new)
                   /\ last' = Log("Create", AttrsOf(d), new, issued, out.failed,
                                  IF out.failed = 0 THEN NoErr ELSE CreateErr(calls[out.failed]))
    /\ Logged

\* resourceComputeAggregateV2Read on the record rec: what it leaves in the
\* record and what it logs, the service listing the hosts in the order hosts
ReadOutcome(op, rec, failAt, hosts) ==
    LET id == Atoi(rec.id)
    IN  IF ~id.ok
        THEN [d |-> rec, log |-> Log(op, AttrsOf(rec), AttrsOf(rec), <<>>, 0, ConvertErr)]
        ELSE LET calls == <<Call("get", id.val, "", "", "", EmptyMap)>>
                 out   == Run(calls, 1, failAt, remote)
                 read  == ReadRecord(rec, remote, hosts)
             IN  IF out.failed = 0
                 THEN [d |-> read, log |-> Log(op, AttrsOf(rec), AttrsOf(read), calls, 0, NoErr)]
                 ELSE [d |-> rec,
                       log |-> Log(op, AttrsOf(rec), AttrsOf(rec), calls, 1, ReadErr(calls[1]))]

Read ==
    /\ d.id # <<>>
    /\ \E failAt \in 0..1, hosts \in HostOrders(remote.hosts) :
         LET out == ReadOutcome("Read", d, failAt, hosts)
         IN  /\ d' = out.d
             /\ last' = out.log
    /\ UNCHANGED remote
    /\ Logged

\* resourceComputeAggregateV2Update from the cached attributes to new; the
\* cached attributes are new afterwards, also when a call failed
Update(D) ==
    /\ d.id # <<>>
    /\ LET id == Atoi(d.id) IN \E new \in D :
             IF ~id.ok
             THEN /\ last' = Log("Update", AttrsOf(d), new, <<>>, 0, ConvertErr)
                  /\ d' = Record(d.id, new)
                  /\ UNCHANGED remote
             ELSE LET calls == UpdateCalls(id.val, AttrsOf(d), new)
                  IN  \E failAt \in 0..Len(calls) :
                        LET out    == Run(calls, 1, failAt, remote)
                            issued == SubSeq(calls, 1, out.issued)
                        IN  /\ remote' = out.remote
                            /\ d' = Record(d.id, new)
                            /\ last' = Log("Update", AttrsOf(d), new, issued, out.failed,
                                           IF out.failed = 0 THEN NoErr
                                           ELSE UpdateErr(calls[out.failed]))
    /\ Logged

\* resourceComputeAggregateV2Delete; a deleted resource loses its ID
Delete ==
    /\ d.id # <<>>
    /\ LET id == Atoi(d.id)
       IN  IF ~id.ok
           THEN /\ last' = Log("Delete", AttrsOf(d), AttrsOf(d), <<>>, 0, ConvertErr)
                /\ UNCHANGED <<d, remote>>
           ELSE LET calls == <<Call("delete", id.val, "", "", "", EmptyMap)>>
                IN  \E failAt \in 0..1 :
                      LET out == Run(calls, 1, failAt, remote)
                      IN  /\ remote' = out.remote
                          /\ d' = IF out.failed = 0 THEN Record(<<>>, NoAttrs) ELSE d
                          /\ last' = Log("Delete", AttrsOf(d), AttrsOf(d), calls, out.failed,
                                         IF out.failed = 0 THEN NoErr ELSE DeleteErr(calls[1]))
    /\ Logged

\* schema.ImportStatePassthrough: the supplied text becomes the local ID and
\* the record is read; an import whose Read fails leaves nothing behind
Import ==
    /\ d.id = <<>>
    /\ \E id \in ImportIds, failAt \in 0..1, hosts \in HostOrders(remote.hosts) :
         LET out == ReadOutcome("Import", Record(id, NoAttrs), failAt, hosts)
         IN  /\ d' = IF Succeeded(out.log) THEN out.d ELSE d
             /\ last' = out.log
    /\ UNCHANGED remote
    /\ Logged

\* the callbacks on host lists
Next == Create(HostDesired) \/ Read \/ Update(HostDesired) \/ Delete

Spec == Init /\ [][Next]_vars

\* the callbacks on names and zones
NextNameZone == Create(NameZoneDesired) \/ Read \/ Update(NameZoneDesired) \/ Delete

SpecNameZone == Init /\ [][NextNameZone]_vars

\* the callbacks on metadata maps, and the import
NextMetadata ==
    Create(MetadataDesired) \/ Read \/ Update(MetadataDesired) \/ Delete \/ Import

SpecMetadata == InitImport /\ [][NextMetadata]_vars

\* the two differences of Update, on any two host lists
InitDiff ==
    /\ d = Record(<<>>, NoAttrs)
    /\ remote = NoRemote
    /\ last = Log("none", NoAttrs, NoAttrs, <<>>, 0, NoErr)
    /\ hist = [afterRead |-> FALSE, aborted |-> FALSE]
    /\ oldHosts \in DiffLists
    /\ newHosts \in DiffLists
    /\ diff = NoDifference

Difference ==
    /\ ~diff.done
    /\ diff' = [done |-> TRUE,
                hostsToDelete |-> arrayDifference(oldHosts, newHosts),
                hostsToAdd |-> arrayDifference(newHosts, oldHosts)]
    /\ UNCHANGED <<d, remote, last, hist, oldHosts, newHosts>>

NextDiff == Difference

SpecDiff == InitDiff /\ [][NextDiff]_vars

\* ---------------------------------------------------------------- claims
HostOps == {"remove-host", "add-host"}

\* the positions of the logged calls of the kinds ops
CallsOf(l, ops) == {i \in DOMAIN l.calls : l.calls[i].op \in ops}

\* the positions of the logged calls of kind op on host h
HostCallsFor(l, op, h) == {i \in DOMAIN l.calls : l.calls[i].op = op /\ l.calls[i].host = h}

Unchanged(l) ==
    /\ l.old.name = l.new.name
    /\ l.old.zone = l.new.zone
    /\ l.old.hosts = l.new.hosts
    /\ l.old.metadata = l.new.metadata

\* C1: an Update in which name, zone, hosts and metadata all equal the cached
\* state issues no external call at all and returns success.
C1_NoChangeNoCalls ==
    (last.op = "Update" /\ Unchanged(last)) => (last.calls = <<>> /\ last.err = NoErr)

C1_Witness ==
    /\ last.op = "Update"
    /\ Unchanged(last)
    /\ last.new.name = "n1" /\ last.new.zone = "z1" /\ last.new.metadata # EmptyMap
    /\ last.calls = <<>>
    /\ remote.exists

\* C2: when the k-th host call of an Update (the remove-host calls, then the
\* add-host calls) fails, k host calls have been issued, the failing one is the
\* last call issued, no set-metadata call is issued and Update returns an error.
C2_HostFailureStops ==
    (last.op = "Update" /\ last.failed > 0 /\ last.calls[last.failed].op \in HostOps) =>
        LET k == last.failed - Cardinality(CallsOf(last, {"update"}))
        IN  /\ Cardinality(CallsOf(last, HostOps)) = k
            /\ Len(last.calls) = last.failed
            /\ CallsOf(last, {"set-metadata"}) = {}
            /\ last.err # NoErr

C2_Witness ==
    /\ last.op = "Update"
    /\ last.old.hosts = <<"h1">> /\ last.new.hosts = <<"h2">>
    /\ last.old.metadata # last.new.metadata
    /\ last.failed = 1
    /\ last.calls = <<Call("remove-host", 42, "", "", "h1", EmptyMap)>>
    /\ last.err # NoErr

\* C3: an Update in which only the metadata changed issues exactly one call, a
\* set-metadata call carrying the whole new map.
C3_MetadataOnly ==
    (/\ last.op = "Update"
     /\ last.old.name = last.new.name
     /\ last.old.zone = last.new.zone
     /\ last.old.hosts = last.new.hosts
     /\ last.old.metadata # last.new.metadata) =>
        /\ Len(last.calls) = 1
        /\ last.calls[1].op = "set-metadata"
        /\ last.calls[1].metadata = last.new.metadata

C3_Witness ==
    /\ last.op = "Update"
    /\ last.old.name = last.new.name
    /\ last.old.zone = last.new.zone
    /\ last.old.hosts = last.new.hosts
    /\ last.old.metadata = ("owner" :> "z1")
    /\ last.new.metadata = ("owner" :> "z1") @@ (ZoneKey :> "z1")
    /\ last.calls = <<Call("set-metadata", 42, "", "", "", last.new.metadata)>>

\* C4: in an Update, if name or zone changed exactly one update call is issued,
\* carrying the new value of each changed field and the empty value of each
\* unchanged one; if neither changed, no update call is issued.
C4_CombinedUpdate ==
    last.op = "Update" =>
        LET updates == CallsOf(last, {"update"})
        IN  IF last.old.name # last.new.name \/ last.old.zone # last.new.zone
            THEN /\ Cardinality(updates) = 1
                 /\ \A i \in updates :
                      /\ last.calls[i].name =
                           (IF last.old.name # last.new.name THEN last.new.name ELSE "")
                      /\ last.calls[i].zone =
                           (IF last.old.zone # last.new.zone THEN last.new.zone ELSE "")
            ELSE updates = {}

\* C5: a Create in which no call fails issues one create call with name and
\* zone, then one add-host call per entry of the host list in list order, then
\* one set-metadata call with the metadata map, whatever the host list and the
\* map are; the local ID is the ID the service returned.
C5_CreateCalls ==
    (last.op = "Create" /\ last.failed = 0) =>
        LET n == Len(last.new.hosts)
        IN  /\ Len(last.calls) = n + 2
            /\ last.calls[1].op = "create"
            /\ last.calls[1].name = last.new.name
            /\ last.calls[1].zone = last.new.zone
            /\ \A i \in 1..n :
                 /\ last.calls[i + 1].op = "add-host"
                 /\ last.calls[i + 1].host = last.new.hosts[i]
                 /\ last.calls[i + 1].id = remote.id
            /\ last.calls[n + 2].op = "set-metadata"
            /\ last.calls[n + 2].metadata = last.new.metadata
            /\ last.calls[n + 2].id = remote.id
            /\ Atoi(d.id) = [ok |-> TRUE, val |-> remote.id]
            /\ remote.id = 42 => d.id = <<"4", "2">>

C5_Witness ==
    /\ last.op = "Create" /\ last.failed = 0
    /\ last.new.hosts = <<"h2", "h1">>
    /\ last.new.metadata = EmptyMap
    /\ Len(last.calls) = 4
    /\ last.calls[4].op = "set-metadata"
    /\ remote.hosts = {"h1", "h2"}
    /\ remote.id = 42 /\ d.id = <<"4", "2">>

\* C6: the error a callback returns for a failed call names the operation that
\* failed and, for a failed add-host or remove-host call, the host of that call.
C6_ErrorNamesOperation ==
    last.failed > 0 =>
        LET c == last.calls[last.failed]
        IN  /\ last.err.op = c.op
            /\ c.op \in HostOps => last.err.host = c.host

\* C7: a Read exposes the fetched metadata map without the key
\* availability_zone: every other key with its fetched value, no other key.
C7_ReadStripsZone ==
    (last.op \in {"Read", "Import"} /\ Succeeded(last)) =>
        /\ DOMAIN d.metadata = DOMAIN remote.metadata \ {ZoneKey}
        /\ \A k \in DOMAIN d.metadata : d.metadata[k] = remote.metadata[k]

C7_Witness ==
    /\ last.op = "Read" /\ Succeeded(last)
    /\ remote.metadata = (ZoneKey :> "z1") @@ ("owner" :> "team-a")
    /\ d.metadata = ("owner" :> "team-a")

\* C8: after Updates that aborted on a host call, a Read followed by an Update
\* to a duplicate-free host list in which no call fails leaves the service with
\* exactly the hosts of that list.
C8_RetryConverges ==
    (/\ last.op = "Update" /\ Succeeded(last)
     /\ hist.afterRead
     /\ NoDup(last.new.hosts)) => remote.hosts = Range(last.new.hosts)

C8_Witness ==
    /\ last.op = "Update" /\ Succeeded(last)
    /\ hist.afterRead /\ hist.aborted
    /\ last.new.hosts = <<"h2">>
    /\ last.old.hosts = <<"h1">>
    /\ remote.hosts = {"h2"}

\* C9: arrayDifference(A, B) holds exactly the elements of A that are not in
\* B; it is empty iff every element of A is in B; the difference of a list with
\* itself is empty, with the empty list it has the list's elements, and of the
\* empty list it is empty; old hosts [h1,h2,h3] and new hosts [h2,h4] give
\* hostsToDelete {h1,h3} and hostsToAdd {h4}.
C9_Difference ==
    diff.done =>
        /\ Range(diff.hostsToDelete) = {x \in Range(oldHosts) : x \notin Range(newHosts)}
        /\ Range(diff.hostsToAdd) = {x \in Range(newHosts) : x \notin Range(oldHosts)}
        /\ (diff.hostsToDelete = <<>>) <=> (Range(oldHosts) \subseteq Range(newHosts))
        /\ (diff.hostsToAdd = <<>>) <=> (Range(newHosts) \subseteq Range(oldHosts))
        /\ oldHosts = newHosts => diff.hostsToDelete = <<>> /\ diff.hostsToAdd = <<>>
        /\ newHosts = <<>> => Range(diff.hostsToDelete) = Range(oldHosts)
        /\ oldHosts = <<>> => diff.hostsToDelete = <<>>
        /\ (oldHosts = <<"h1", "h2", "h3">> /\ newHosts = <<"h2", "h4">>) =>
             (Range(diff.hostsToDelete) = {"h1", "h3"} /\ Range(diff.hostsToAdd) = {"h4"})

C9_Witness ==
    /\ diff.done
    /\ oldHosts = <<"h1", "h2", "h3">>
    /\ newHosts = <<"h2", "h4">>
    /\ diff.hostsToDelete = <<"h1", "h3">>
    /\ diff.hostsToAdd = <<"h4">>

\* C10 as stated: in an Update in which no call fails, a host in both the old
\* and the new list gets no remove-host and no add-host call, and a host that
\* is only in the new list, more than once, gets one add-host call fewer than
\* it has occurrences there.
C10_OncePerExtraOccurrence ==
    (last.op = "Update" /\ last.failed = 0) =>
        \A h \in Hosts :
            /\ (h \in Range(last.old.hosts) /\ h \in Range(last.new.hosts)) =>
                 (HostCallsFor(last, "remove-host", h) = {} /\ HostCallsFor(last, "add-host", h) = {})
            /\ (h \notin Range(last.old.hosts) /\ Occurrences(last.new.hosts, h) > 1) =>
                 Cardinality(HostCallsFor(last, "add-host", h)) = Occurrences(last.new.hosts, h) - 1

\* C10, amended: in an Update, a host in both the old and the new list gets no
\* remove-host and no add-host call; a host that is only in the new list gets
\* at most one add-host call per occurrence there, and exactly one per
\* occurrence when no call of the Update fails.
C10_OncePerOccurrence ==
    last.op = "Update" =>
        \A h \in Hosts :
            /\ (h \in Range(last.old.hosts) /\ h \in Range(last.new.hosts)) =>
                 (HostCallsFor(last, "remove-host", h) = {} /\ HostCallsFor(last, "add-host", h) = {})
            /\ h \notin Range(last.old.hosts) =>
                 /\ Cardinality(HostCallsFor(last, "add-host", h)) <= Occurrences(last.new.hosts, h)
                 /\ last.failed = 0 =>
                      Cardinality(HostCallsFor(last, "add-host", h)) = Occurrences(last.new.hosts, h)

C10_Witness ==
    /\ last.op = "Update" /\ last.failed = 0
    /\ last.old.hosts = <<"h2">>
    /\ last.new.hosts = <<"h1", "h1">>
    /\ Cardinality(HostCallsFor(last, "add-host", "h1")) = 2
    /\ Len(last.calls) = 3

====
